---- MODULE Spec2Model ----
(***************************************************************************)
(* go-push-components: PushQueue, PushStack and PushBatchQueue.           *)
(*                                                                         *)
(* One dispatcher instance is modelled; its variant is chosen in Init.    *)
(* Start, Stop and Drain take no lock, so each of their assignments is a  *)
(* step of its own (adminPc is the owner goroutine's position).  A section *)
(* of code that runs under q.mutex is one action up to the point where it *)
(* acts on a flag (started, draining) that those unlocked calls write: a  *)
(* section that decided on such a flag keeps the mutex (`mutex` names the *)
(* holder) and acts in a second step, so that the unlocked assignments    *)
(* can fall between the test and the act, as the data race allows.  Put   *)
(* keeps the mutex while the overload handlers it calls are running.      *)
(* Goroutines launched with `go q.get()` are counted in pendingGets until *)
(* they run; a goroutine inside doWork is in `working`; one that has left *)
(* workerCompleted and has yet to run the tail of get/pop is in `posts`.  *)
(***************************************************************************)
EXTENDS Integers, Sequences, FiniteSets, TLC

\* Bounds of the model.
Concurrency == 2
Depth == 3
BatchSize == 2
MaxItems == 4
MaxPending == 2

Variants == {"queue", "stack", "batch"}

VARIABLES
    variant,                \* which component this instance is
    items,                  \* q.items / s.items
    started,                \* q.started
    draining,               \* q.draining
    overload,               \* q.overload
    dropOldestOnOverload,   \* q.dropOldestOnOverload (PushQueue, PushBatchQueue)
    availableWorkers,       \* q.availableWorkers
    pendingGets,            \* goroutines launched by `go q.get()` / `go s.pop()`, not yet run
    working,                \* extraction units whose worker call (inside doWork) is running
    posts,                  \* units whose goroutine left workerCompleted, before the tail of get/pop
    extra,                  \* units whose `go s.worker(item)` call (PushStack.pop) is running
    adminPc,                \* position of the owner goroutine inside Start/Stop/Drain
    mutex,                  \* "free", or the section that holds q.mutex across steps
    nextItem,               \* the next item a producer will insert (items are 1, 2, ...)
    lastPut,                \* what the last Put/Push did; what it handed to the handlers
    dispatched,             \* the extraction units, in the order they were extracted
    overloadInsertions,     \* insertions since overload was reset that found the buffer full or draining
    onOverloadCalls,        \* onOverload invocations since overload was reset
    onFirstOverloadCalls,   \* onFirstOverload invocations since overload was reset
    putPanics,              \* Put/Push calls that ended in a runtime panic
    drainedFired,           \* onDrained launches since the last Drain() call began
    drainSnap,              \* items buffered when Drain() was called; {} once Start/Stop/Empty is called
    clean,                  \* no insertion was an overload and Empty() was never called
    abandoned,              \* Stop() cleared a drain in progress and Drain() was not called since
    emptyDrain              \* the last Drain() was called with the buffer empty and every slot idle

vars == << variant, items, started, draining, overload, dropOldestOnOverload,
           availableWorkers, pendingGets, working, posts, extra, adminPc, nextItem,
           lastPut, dispatched, overloadInsertions, onOverloadCalls,
           onFirstOverloadCalls, putPanics, drainedFired, drainSnap, mutex, clean,
           abandoned, emptyDrain >>

hist == << overloadInsertions, onOverloadCalls, onFirstOverloadCalls >>

Min(a, b) == IF a < b THEN a ELSE b

SeqSet(s) == { s[i] : i \in 1..Len(s) }

\* A value handed to a handler: an item, or a one-element slice of items.
NoValue == [kind |-> "none", val |-> 0]
ItemValue(x) == [kind |-> "item", val |-> x]
SliceValue(x) == [kind |-> "slice", val |-> x]

NoPut == [item |-> 0, outcome |-> "none", reported |-> NoValue, first |-> FALSE]

----------------------------------------------------------------------------
\* Pure pieces of the code.

\* Count() / Depth()
Count == Len(items)

\* Mutant of IsOverload: the capacity test off by one.
IsOverload_OffByOne(n, dr) == n > Depth \/ dr

\* `q.Count() >= q.Depth() || q.draining`
IsOverload(n, dr) == n >= Depth \/ dr

\* Mutant of DropsOldest: the queues evict whatever the flag says.
DropsOldest_Always(v, flag) == TRUE

\* Whether the overload branch evicts q.items[0]: the flag for the queues,
\* always for PushStack.Push.
DropsOldest(v, flag) == IF v = "stack" THEN TRUE ELSE flag

\* `q.items[1:]` panics (slice bounds out of range [1:0]) on an empty slice.
SlicePanics(its) == Len(its) = 0

\* `append(q.items[1:], item)`
EvictOldest(its, item) == Append(Tail(its), item)

\* What the overload branch hands to the handlers when it evicts:
\* `q.items[:1][0]` in the queues, the slice `s.items[:1]` in PushStack.
EvictedValue(v, its) == IF v = "stack" THEN SliceValue(its[1]) ELSE ItemValue(its[1])

\* `q.overload == 1 && q.onFirstOverload != nil`
IsFirstOverload(n) == n = 1

\* readyToWork()
readyToWork == (started \/ draining) /\ availableWorkers > 0 /\ Len(items) > 0

\* A dispatch that hands out the newest buffered item whatever the variant.
ExtractUnit_Newest(v, its) == << its[Len(its)] >>

\* A dispatch that hands out the oldest buffered item alone whatever the variant.
ExtractUnit_Oldest(v, its) == << its[1] >>

\* A batch dispatch that hands out the whole buffer whatever batchSize is.
ExtractUnit_WholeBuffer(v, its) ==
    CASE v = "queue" -> << its[1] >>
      [] v = "stack" -> << its[Len(its)] >>
      [] v = "batch" -> its

\* The unit get/pop extracts.
ExtractUnit(v, its) ==
    CASE v = "queue" -> << its[1] >>
      [] v = "stack" -> << its[Len(its)] >>
      [] v = "batch" -> SubSeq(its, 1, Min(BatchSize, Len(its)))

\* The buffer get/pop leaves.
AfterExtract(v, its) ==
    CASE v = "queue" -> Tail(its)
      [] v = "stack" -> SubSeq(its, 1, Len(its) - 1)
      [] v = "batch" -> SubSeq(its, Min(BatchSize, Len(its)) + 1, Len(its))

\* A completion that does not give its slot back.
ReturnSlot_Keeps(a) == a

\* `if q.availableWorkers < q.concurrency { q.availableWorkers++ }`
ReturnSlot(a) == IF a < Concurrency THEN a + 1 ELSE a

\* The drain-completion test of workerCompleted, on the values after the slot returned.
DrainComplete(a, its, dr) == a = Concurrency /\ Len(its) = 0 /\ dr

\* The test of Drain(): `q.Count() == 0 && q.availableWorkers == q.concurrency`
AlreadyDrained(a, its) == Len(its) = 0 /\ a = Concurrency

\* Start and Drain of PushBatchQueue end with `go q.get()`; those of PushQueue and
\* PushStack do not.
StartSpawns(v) == IF v = "batch" THEN 1 ELSE 0
DrainSpawns(v) == IF v = "batch" THEN 1 ELSE 0

CanSpawn(n) == pendingGets + n <= MaxPending

----------------------------------------------------------------------------
Init ==
    /\ variant \in Variants
    /\ items = << >>
    /\ started = FALSE
    /\ draining = FALSE
    /\ overload = 0
    /\ dropOldestOnOverload = FALSE
    /\ availableWorkers = Concurrency
    /\ pendingGets = 0
    /\ working = {}
    /\ posts = {}
    /\ extra = {}
    /\ adminPc = "idle"
    /\ nextItem = 1
    /\ lastPut = NoPut
    /\ dispatched = << >>
    /\ overloadInsertions = 0
    /\ onOverloadCalls = 0
    /\ onFirstOverloadCalls = 0
    /\ putPanics = 0
    /\ drainedFired = 0
    /\ drainSnap = {}
    /\ mutex = "free"
    /\ clean = TRUE
    /\ abandoned = FALSE
    /\ emptyDrain = FALSE

\* DropOldestOnOverload()
DropOldestOnOverload ==
    /\ variant # "stack"
    /\ dropOldestOnOverload = FALSE
    /\ dropOldestOnOverload' = TRUE
    /\ UNCHANGED << variant, items, started, draining, overload, availableWorkers,
                    pendingGets, working, posts, extra, adminPc, nextItem, lastPut,
                    dispatched, hist, putPanics, drainedFired, drainSnap, mutex, clean,
                    abandoned, emptyDrain >>

\* Put(item) / Push(item), from Lock() to the calls of the overload handlers. An
\* overloading call keeps the mutex while the handlers run (the Unlock is
\* deferred); the others return and release it.
Put ==
    /\ mutex = "free"
    /\ nextItem <= MaxItems
    /\ LET item == nextItem
           ov == IsOverload(Count, draining)
           old == DropsOldest(variant, dropOldestOnOverload)
       IN
       /\ nextItem' = nextItem + 1
       /\ overloadInsertions' = IF Len(items) >= Depth \/ draining
                                THEN overloadInsertions + 1 ELSE overloadInsertions
       /\ IF ov /\ old /\ SlicePanics(items)
          THEN \* the panic unwinds through the deferred Unlock; nothing was assigned
               /\ putPanics' = putPanics + 1
               /\ lastPut' = [item |-> item, outcome |-> "panic",
                              reported |-> NoValue, first |-> FALSE]
               /\ clean' = FALSE
               /\ UNCHANGED mutex
               /\ UNCHANGED << items, overload, pendingGets, onOverloadCalls,
                               onFirstOverloadCalls >>
          ELSE IF ov
          THEN /\ IF old
                  THEN /\ CanSpawn(1)
                       /\ items' = EvictOldest(items, item)
                       /\ pendingGets' = pendingGets + 1
                  ELSE /\ UNCHANGED << items, pendingGets >>
               /\ overload' = overload + 1
               /\ onOverloadCalls' = onOverloadCalls + 1
               /\ onFirstOverloadCalls' =
                      IF IsFirstOverload(overload') THEN onFirstOverloadCalls + 1
                      ELSE onFirstOverloadCalls
               /\ lastPut' = [item |-> item, outcome |-> "overload",
                              reported |-> IF old THEN EvictedValue(variant, items)
                                           ELSE ItemValue(item),
                              first |-> IsFirstOverload(overload')]
               /\ clean' = FALSE
               /\ mutex' = "Put"
               /\ UNCHANGED putPanics
          ELSE /\ CanSpawn(1)
               /\ items' = Append(items, item)
               /\ pendingGets' = pendingGets + 1
               /\ lastPut' = [item |-> item, outcome |-> "accepted",
                              reported |-> NoValue, first |-> FALSE]
               /\ UNCHANGED << overload, onOverloadCalls, onFirstOverloadCalls, putPanics,
                               clean, mutex >>
    /\ UNCHANGED << variant, started, draining, dropOldestOnOverload, availableWorkers,
                    working, posts, extra, adminPc, dispatched, drainedFired, drainSnap,
                    abandoned, emptyDrain >>

\* Everything but the mutex.
exceptMutex == << variant, items, started, draining, overload, dropOldestOnOverload,
                 availableWorkers, pendingGets, working, posts, extra, adminPc, nextItem,
                 lastPut, dispatched, hist, putPanics, drainedFired, drainSnap, clean,
                 abandoned, emptyDrain >>

\* The overload handlers return and Put's deferred Unlock runs.
PutReturns ==
    /\ mutex = "Put"
    /\ mutex' = "free"
    /\ UNCHANGED exceptMutex

\* An overload handler calls Put, Push or Empty of the same component: its Lock()
\* waits for the mutex its own caller holds, so the handler never returns and the
\* mutex is never released.
HandlerReenters ==
    /\ mutex = "Put"
    /\ mutex' = "deadlock"
    /\ UNCHANGED exceptMutex

\* An Empty() that also resets the overload counter.
Empty_ResetsOverload ==
    /\ mutex = "free"
    /\ items' = << >>
    /\ drainSnap' = {}
    /\ clean' = FALSE
    /\ overload' = 0
    /\ UNCHANGED << variant, started, draining, dropOldestOnOverload,
                    availableWorkers, pendingGets, working, posts, extra, adminPc,
                    nextItem, lastPut, dispatched, hist, putPanics, drainedFired, mutex,
                    abandoned, emptyDrain >>

\* Empty()
Empty ==
    /\ mutex = "free"
    /\ items' = << >>
    /\ drainSnap' = {}
    /\ clean' = FALSE
    /\ UNCHANGED << variant, started, draining, overload, dropOldestOnOverload,
                    availableWorkers, pendingGets, working, posts, extra, adminPc,
                    nextItem, lastPut, dispatched, hist, putPanics, drainedFired, mutex,
                    abandoned, emptyDrain >>

\* get() / pop() up to the test under the lock: a launched goroutine runs. The
\* unlocked first test only lets the goroutine leave early; the test under the
\* lock decides, and a goroutine that passed it keeps the mutex.
GetStep ==
    /\ mutex = "free"
    /\ pendingGets > 0
    /\ pendingGets' = pendingGets - 1
    /\ mutex' = IF readyToWork THEN "get" ELSE "free"
    /\ UNCHANGED << variant, items, started, draining, overload, dropOldestOnOverload,
                    availableWorkers, working, posts, extra, adminPc, nextItem, lastPut,
                    dispatched, hist, putPanics, drainedFired, drainSnap, clean,
                    abandoned, emptyDrain >>

\* get() / pop() after the test, up to the call of the worker inside doWork: the
\* slot is taken, the unit extracted, the mutex released and the worker called.
GetExtract ==
    /\ mutex = "get"
    /\ mutex' = "free"
    /\ LET u == ExtractUnit(variant, items) IN
       /\ availableWorkers' = availableWorkers - 1
       /\ items' = AfterExtract(variant, items)
       /\ working' = working \cup {u}
       /\ dispatched' = Append(dispatched, u)
    /\ UNCHANGED << variant, started, draining, overload, dropOldestOnOverload,
                    pendingGets, posts, extra, adminPc, nextItem, lastPut, hist,
                    putPanics, drainedFired, drainSnap, clean, abandoned, emptyDrain >>

\* The worker returns, doWork receives from done, and workerCompleted runs up to
\* its test of q.draining: the slot is returned; when the drain is not complete
\* `go q.get()` follows and the mutex is released, otherwise the goroutine keeps
\* the mutex and calls setDrained next.
WorkerCompleted ==
    /\ mutex = "free"
    /\ \E u \in working :
       LET a == ReturnSlot(availableWorkers) IN
       /\ working' = working \ {u}
       /\ posts' = posts \cup {u}
       /\ availableWorkers' = a
       /\ IF DrainComplete(a, items, draining)
          THEN /\ mutex' = "workerCompleted"
               /\ UNCHANGED pendingGets
          ELSE /\ CanSpawn(1)
               /\ pendingGets' = pendingGets + 1
               /\ UNCHANGED mutex
       /\ UNCHANGED << variant, items, started, draining, overload, dropOldestOnOverload,
                       extra, adminPc, nextItem, lastPut, dispatched, hist, putPanics,
                       drainedFired, drainSnap, clean, abandoned, emptyDrain >>

\* setDrained() called by workerCompleted, and the deferred Unlock.
SetDrained ==
    /\ mutex = "workerCompleted"
    /\ mutex' = "free"
    /\ drainedFired' = drainedFired + 1
    /\ draining' = FALSE
    /\ UNCHANGED << variant, items, started, overload, dropOldestOnOverload,
                    availableWorkers, pendingGets, working, posts, extra, adminPc,
                    nextItem, lastPut, dispatched, hist, putPanics, drainSnap, clean,
                    abandoned, emptyDrain >>

\* The tail of get/pop after doWork returned: PushStack.pop first runs
\* `go s.worker(item)`; then `if !q.draining { go q.get() }`.
PostWork ==
    \E u \in posts :
       /\ posts' = posts \ {u}
       /\ extra' = IF variant = "stack" THEN extra \cup {u} ELSE extra
       /\ IF ~draining
          THEN /\ CanSpawn(1)
               /\ pendingGets' = pendingGets + 1
          ELSE UNCHANGED pendingGets
       /\ UNCHANGED << variant, items, started, draining, overload, dropOldestOnOverload,
                       availableWorkers, working, adminPc, nextItem, lastPut, dispatched,
                       hist, putPanics, drainedFired, drainSnap, mutex, clean, abandoned, emptyDrain >>

\* A worker call launched by `go s.worker(item)` returns.
ExtraWorkerReturns ==
    \E u \in extra :
       /\ extra' = extra \ {u}
       /\ UNCHANGED << variant, items, started, draining, overload, dropOldestOnOverload,
                       availableWorkers, pendingGets, working, posts, adminPc, nextItem,
                       lastPut, dispatched, hist, putPanics, drainedFired, drainSnap,
                       mutex, clean, abandoned, emptyDrain >>

----------------------------------------------------------------------------
\* Start(), Stop(), Drain(): one step per assignment.

adminFrame == << variant, items, dropOldestOnOverload, availableWorkers, working, posts,
                 extra, nextItem, lastPut, dispatched, putPanics, mutex, clean >>

StartBegin ==
    /\ adminPc = "idle"
    /\ started' = TRUE
    /\ adminPc' = "start2"
    /\ drainSnap' = {}
    /\ UNCHANGED << adminFrame, draining, overload, pendingGets, hist, drainedFired,
                    abandoned, emptyDrain >>

StartClearDraining ==
    /\ adminPc = "start2"
    /\ draining' = FALSE
    /\ adminPc' = "start3"
    /\ UNCHANGED << adminFrame, started, overload, pendingGets, hist, drainedFired,
                    drainSnap, abandoned, emptyDrain >>

StartResetOverload ==
    /\ adminPc = "start3"
    /\ CanSpawn(StartSpawns(variant))
    /\ overload' = 0
    /\ overloadInsertions' = 0
    /\ onOverloadCalls' = 0
    /\ onFirstOverloadCalls' = 0
    /\ pendingGets' = pendingGets + StartSpawns(variant)
    /\ adminPc' = "idle"
    /\ UNCHANGED << adminFrame, started, draining, drainedFired, drainSnap, abandoned, emptyDrain >>

StopBegin ==
    /\ adminPc = "idle"
    /\ started' = FALSE
    /\ adminPc' = "stop2"
    /\ drainSnap' = {}
    /\ UNCHANGED << adminFrame, draining, overload, pendingGets, hist, drainedFired,
                    abandoned, emptyDrain >>

StopClearDraining ==
    /\ adminPc = "stop2"
    /\ draining' = FALSE
    /\ adminPc' = "idle"
    /\ abandoned' = (abandoned \/ draining)
    /\ UNCHANGED << adminFrame, started, overload, pendingGets, hist, drainedFired, drainSnap,
                    emptyDrain >>

DrainBegin ==
    /\ adminPc = "idle"
    /\ draining' = TRUE
    /\ adminPc' = "drain2"
    /\ drainedFired' = 0
    /\ drainSnap' = SeqSet(items)
    /\ abandoned' = FALSE
    /\ emptyDrain' = (items = << >> /\ availableWorkers = Concurrency)
    /\ UNCHANGED << adminFrame, started, overload, pendingGets, hist >>

DrainClearStarted ==
    /\ adminPc = "drain2"
    /\ started' = FALSE
    /\ adminPc' = "drain3"
    /\ UNCHANGED << adminFrame, draining, overload, pendingGets, hist, drainedFired,
                    drainSnap, abandoned, emptyDrain >>

DrainCheck ==
    /\ adminPc = "drain3"
    /\ CanSpawn(DrainSpawns(variant))
    /\ IF AlreadyDrained(availableWorkers, items)
       THEN \* setDrained()
            /\ drainedFired' = drainedFired + 1
            /\ draining' = FALSE
       ELSE UNCHANGED << drainedFired, draining >>
    /\ pendingGets' = pendingGets + DrainSpawns(variant)
    /\ adminPc' = "idle"
    /\ UNCHANGED << adminFrame, started, overload, hist, drainSnap, abandoned, emptyDrain >>

Next ==
    \/ DropOldestOnOverload
    \/ Put
    \/ PutReturns
    \/ HandlerReenters
    \/ Empty
    \/ GetStep
    \/ GetExtract
    \/ WorkerCompleted
    \/ SetDrained
    \/ PostWork
    \/ ExtraWorkerReturns
    \/ StartBegin
    \/ StartClearDraining
    \/ StartResetOverload
    \/ StopBegin
    \/ StopClearDraining
    \/ DrainBegin
    \/ DrainClearStarted
    \/ DrainCheck

Spec == Init /\ [][Next]_vars

----------------------------------------------------------------------------
\* Derived notions used by the properties.

\* A step of Put/Push: only Put takes a fresh item.
PutStep == nextItem' = nextItem + 1

\* Worker-callback invocations that have begun and not yet returned.
InFlight == Cardinality(working) + Cardinality(extra)

\* How many times item i was extracted by a dispatch step.
DispatchCount(i) ==
    Cardinality({ p \in { << k, j >> : k \in 1..Len(dispatched), j \in 1..BatchSize } :
                    p[2] <= Len(dispatched[p[1]]) /\ dispatched[p[1]][p[2]] = i })

\* Nothing is running and nothing is scheduled: no owner call in progress, no
\* launched get/pop, no worker call, no goroutine between them or inside a
\* locked section.
Quiescent ==
    /\ adminPc = "idle"
    /\ mutex = "free"
    /\ pendingGets = 0
    /\ working = {}
    /\ posts = {}
    /\ extra = {}

----------------------------------------------------------------------------
\* C1: in every reachable state of every variant the number of buffered items
\* is between 0 and the capacity.
C1_CapacityInvariant == 0 <= Len(items) /\ Len(items) <= Depth

\* C1 witness: an overloading insertion that evicts has acted on a full buffer.
C1_Witness ==
    /\ Len(items) = Depth
    /\ lastPut.outcome = "overload"
    /\ lastPut.item \in SeqSet(items)

\* C2: the number of worker invocations begun and not yet returned is at most
\* the concurrency, in every variant.
C2_ConcurrencyInvariant == InFlight <= Concurrency

\* C3: onDrained fires at most once per Drain() call.
C3_DrainedAtMostOnce == drainedFired <= 1

\* C4: Drain() called with items buffered and no Start/Stop/Empty afterwards:
\* once everything that was running or scheduled has run, every item buffered
\* at the call was dispatched exactly once, onDrained fired exactly once and
\* the machine is stopped.
C4_DrainCompleteness ==
    (drainSnap # {} /\ Quiescent) =>
        /\ \A i \in drainSnap : DispatchCount(i) = 1
        /\ drainedFired = 1
        /\ ~started
        /\ ~draining

\* C5: since the last reset by Start, overloadCount equals the number of
\* insertions that found the buffer at capacity or the state Draining, and
\* onOverload was invoked once per such insertion, with the dropped item;
\* and the count never decreases except by that reset.
C5_OverloadAccounting ==
    /\ overload = overloadInsertions
    /\ onOverloadCalls = overloadInsertions
    /\ lastPut.outcome = "overload" => lastPut.reported.kind = "item"

\* C6: onFirstOverload has fired exactly once since the last reset by Start
\* if at least one overloading insertion happened since, never otherwise, and
\* it was handed the dropped item.
C6_FirstOverloadOnce ==
    /\ onFirstOverloadCalls = (IF overloadInsertions >= 1 THEN 1 ELSE 0)
    /\ lastPut.first => lastPut.reported.kind = "item"

C8_DropOldest ==
    [][(PutStep /\ (variant = "stack" \/ dropOldestOnOverload) /\ Len(items) = Depth)
          => /\ items' = Append(Tail(items), nextItem)
             /\ lastPut'.reported = ItemValue(Head(items))]_vars

\* C9: no call of Put/Push ends in a panic.
C9_PutNeverFails == putPanics = 0

\* C10: an insertion made while draining is not accepted and its item does
\* not enter the buffer.
C10_DrainingRejects ==
    [][(PutStep /\ draining)
          => /\ lastPut'.outcome # "accepted"
             /\ nextItem \notin SeqSet(items')]_vars

(**************************************************************************)
(* Dispatch order and the owner's calls.                                   *)
(**************************************************************************)

\* The items of the dispatched units, in dispatch order.
RECURSIVE Flatten(_)
Flatten(ss) == IF ss = << >> THEN << >> ELSE Head(ss) \o Flatten(Tail(ss))

\* Items are numbered in the order of their Put/Push calls: 1, 2, ..., n.
InsertionOrder(n) == [i \in 1..n |-> i]

Increasing(s) == \A i \in 1..Len(s) : \A j \in 1..Len(s) : i < j => s[i] < s[j]

\* A step that extracts a unit from the buffer.
DispatchStep == dispatched' # dispatched

\* The last statement of a Drain() call runs.
DrainReturns == adminPc = "drain3" /\ adminPc' = "idle"

\* C11: while the component is stopped (Stop() returned, or it was never
\* started, and neither Start() nor Drain() was called since) no step removes
\* an item for dispatch and no worker call begins; running workers only
\* finish.
C11_NoDispatchWhileStopped ==
    [][(~started /\ ~draining /\ adminPc = "idle") =>
          /\ ~DispatchStep
          /\ working' \subseteq working
          /\ extra' \subseteq extra]_vars

\* C12: once Stop() has cleared a drain that was in progress, onDrained is
\* not launched for that drain, however late its workers complete.
C12_StopAbandonsDrain == abandoned => drainedFired = 0

\* C13: Empty() leaves the buffer empty and changes neither the flags, nor
\* the overload counter, nor the free worker slots, nor the running workers.
C13_EmptyIsolation ==
    [][Empty => /\ items' = << >>
                /\ UNCHANGED << started, draining, overload, availableWorkers,
                                working, posts, extra, pendingGets >>]_vars

\* An accepted item is gone from the buffer without having been dispatched or
\* evicted (Empty() discarded it) while the component runs a worker.
C13_Witness ==
    /\ variant = "queue"
    /\ ~dropOldestOnOverload
    /\ lastPut.outcome = "accepted"
    /\ DispatchCount(lastPut.item) = 0
    /\ items = << >>
    /\ started
    /\ working # {}

\* C14: in a PushQueue run without overload and without Empty(), the items
\* leave the buffer in the order they were put, none skipped: the dispatched
\* items followed by the buffered ones are all the items put, in put order.
C14_Fifo ==
    (variant = "queue" /\ clean) =>
        /\ Flatten(dispatched) = InsertionOrder(Len(dispatched))
        /\ Flatten(dispatched) \o items = InsertionOrder(nextItem - 1)

C14_Witness ==
    /\ variant = "queue"
    /\ clean
    /\ Len(dispatched) = 3
    /\ working = {}

\* C15: every dispatch of a PushStack removes the last pushed item that is
\* still buffered, and hands out that item.
C15_Lifo ==
    [][(variant = "stack" /\ DispatchStep) =>
          /\ items # << >>
          /\ \A i \in 1..Len(items) : items[i] <= items[Len(items)]
          /\ dispatched' = Append(dispatched, << items[Len(items)] >>)
          /\ items' = SubSeq(items, 1, Len(items) - 1)]_vars

\* Three items pushed with no dispatch in between left in reverse order.
C15_Witness ==
    /\ variant = "stack"
    /\ clean
    /\ Len(dispatched) = 3
    /\ dispatched[1][1] > dispatched[2][1]
    /\ dispatched[2][1] > dispatched[3][1]

\* C16: every dispatch of a PushBatchQueue hands the worker the
\* min(batchSize, len) oldest buffered items, at least one, in order, and
\* removes them; the batches in dispatch order followed by the buffer are in
\* put order, and are all the items put when none was dropped or discarded.
C16_BatchProperty ==
    [][variant = "batch" =>
          /\ DispatchStep =>
                LET n == IF Len(items) < BatchSize THEN Len(items) ELSE BatchSize IN
                /\ n >= 1
                /\ dispatched' = Append(dispatched, SubSeq(items, 1, n))
                /\ working' = working \cup { SubSeq(items, 1, n) }
                /\ items' = SubSeq(items, n + 1, Len(items))
          /\ Increasing(Flatten(dispatched') \o items')
          /\ clean' => Flatten(dispatched') \o items' = InsertionOrder(nextItem' - 1)]_vars

\* A full batch was cut from a longer buffer and the rest left as a short one.
C16_Witness ==
    /\ variant = "batch"
    /\ dispatched = << << 1, 2 >>, << 3 >> >>
    /\ clean

\* C17: a Drain() called with the buffer empty and every slot idle dispatches
\* nothing, launches onDrained once and no second time, and leaves both flags
\* false when it returns.
C17_EmptyDrain ==
    [][emptyDrain' =>
          /\ IF adminPc' \in {"drain2", "drain3"}
             THEN drainedFired' = 0 /\ ~DispatchStep /\ working' = {}
             ELSE drainedFired' = 1
          /\ DrainReturns => (~started' /\ ~draining' /\ ~DispatchStep)]_vars

\* C18: no callback is called with the mutex held, so a callback that calls
\* Put, Push or Empty never blocks the component for ever.
C18_NoDeadlock == mutex # "deadlock"

\* C19: every worker call is the one call made for a dispatched unit, and it
\* holds a slot from its start until workerCompleted.
C19_OneInvocationPerUnit ==
    /\ extra = {}
    /\ Cardinality(working) = Concurrency - availableWorkers

\* C20: a get/pop goroutine is launched by every insertion that returns
\* (accepted or overload, with or without eviction), by every worker
\* completion that does not complete the drain, and by every Drain() call.
C20_DispatchTriggering ==
    [][/\ (PutStep /\ lastPut'.outcome # "panic") => pendingGets' = pendingGets + 1
       /\ (working' # working /\ working' \subseteq working /\ mutex' = "free")
             => pendingGets' = pendingGets + 1
       /\ DrainReturns => pendingGets' = pendingGets + 1]_vars

(**************************************************************************)
(* Accounting of slots and items, and progress.                            *)
(**************************************************************************)

\* A worker call made by doWork has returned and workerCompleted has run.
CompletionStep == working' # working /\ working' \subseteq working

\* The item a Put/Push step handed to the overload handlers, if any.
ReportedBy(lp) == IF lp.reported = NoValue THEN {} ELSE { lp.reported.val }

\* C21: availableWorkers stays within 0..concurrency and equals concurrency
\* minus the dispatched units whose completion is not yet accounted; a
\* dispatch takes exactly one slot, a completion returns exactly one, and no
\* other step (Start, Stop, Drain included) changes the counter.
C21_SlotAccounting ==
    [][/\ 0 <= availableWorkers' /\ availableWorkers' <= Concurrency
       /\ availableWorkers' = Concurrency - Cardinality(working')
       /\ DispatchStep => availableWorkers' = availableWorkers - 1
       /\ CompletionStep => availableWorkers' = availableWorkers + 1
       /\ working' = working => availableWorkers' = availableWorkers]_vars

\* After Stop(), one of two dispatched units has completed and the other is
\* still running.
C21_Witness ==
    /\ ~started /\ ~draining /\ adminPc = "idle"
    /\ Len(dispatched) = 2
    /\ Cardinality(working) = 1
    /\ posts # {}
    /\ availableWorkers = 1

\* C22: whenever onDrained is launched the buffer is empty, every slot is
\* idle and no worker call is running.
C22_DrainedMeansFinished ==
    [][drainedFired' = drainedFired + 1 =>
          /\ items' = << >>
          /\ availableWorkers' = Concurrency
          /\ working' = {}
          /\ extra' = {}]_vars

\* C23: every item passed to Put/Push is buffered, or extracted by one
\* dispatch, or reported as dropped by one overload, or discarded by Empty(),
\* and never two of these. Step by step: the incoming item is buffered or
\* reported; an item leaves the buffer only into a dispatched unit, as the
\* reported item of the evicting call, or by Empty(); a reported item is the
\* incoming or the one just evicted; nothing enters the buffer or a unit twice.
C23_ItemConservation ==
    [][LET buf == SeqSet(items)
           bufN == SeqSet(items')
           dis == SeqSet(Flatten(dispatched))
           disN == SeqSet(Flatten(dispatched'))
           rep == IF PutStep THEN ReportedBy(lastPut') ELSE {}
       IN
       /\ Cardinality(bufN) = Len(items')
       /\ Cardinality(disN) = Len(Flatten(dispatched'))
       /\ bufN \cap disN = {}
       /\ dis \subseteq disN
       /\ disN \ dis \subseteq buf \ bufN
       /\ bufN \ buf \subseteq (IF PutStep THEN { nextItem } ELSE {})
       /\ PutStep => (nextItem \in bufN) # (nextItem \in rep)
       /\ rep \subseteq (buf \ bufN) \cup { nextItem }
       /\ buf \ bufN \subseteq (disN \ dis) \cup rep \cup (IF Empty THEN buf ELSE {})]_vars

\* C24: a started component with a buffered item and an idle slot always has
\* something running or scheduled that will attempt a dispatch.
C24_NoStrandedWork ==
    ~(started /\ ~draining /\ items # << >> /\ availableWorkers > 0 /\ Quiescent)

\* C25: the component never sits in the draining state with an empty buffer,
\* every slot idle and nothing running or scheduled that would end the drain.
C25_EmptyDoesNotWedgeDrain ==
    ~(draining /\ items = << >> /\ availableWorkers = Concurrency /\ Quiescent)

====
